---- MODULE Spec2Model ----
(***************************************************************************)
(* The example driver of training/advanced_stream/custom_standalone_model: *)
(* a straight-line script that builds a ThermalDFN model, a parameter set, *)
(* a simulation, solves it over [0, 3600] and plots one output variable.   *)
(*                                                                         *)
(* The state is the script's three module-level names (model,              *)
(* parameter_values, sim), the position of the interpreter (pc), the       *)
(* exception that ended the run (error) and the history of calls the       *)
(* script has made (log).  Every call into a collaborator either returns   *)
(* or raises; an exception is never caught by the script.                  *)
(***************************************************************************)
EXTENDS Integers, Sequences, FiniteSets, TLC

VARIABLES pc, model, parameter_values, sim, error, log

vars == <<pc, model, parameter_values, sim, error, log>>

(***************************************************************************)
(* Bounds of the model.                                                    *)
(***************************************************************************)
\* parameter values returned by get_parameter_values() range over 1..MaxParamValue
MaxParamValue == 4
\* longest list of names handed to plot in the specification SpecAnyPlot
MaxPlotNames == 2

(***************************************************************************)
(* Values.                                                                 *)
(***************************************************************************)
\* Python's None; a name that is not bound to an object yet
None == [class |-> "NoneType"]

\* the names of the quantities the parameter set maps to numbers
ParamKeys == {"R_c", "C_c"}

\* the mappings get_parameter_values() of parameter_values.py may return
get_parameter_values == [ParamKeys -> 1..MaxParamValue]

\* the output variables the ThermalDFN model of model.py defines
ThermalDFN_variables == {"Temperature [°C]", "Time [s]"}

\* line 5: ThermalDFN() takes no argument and returns the model handle
ThermalDFN == [class |-> "ThermalDFN", variables |-> ThermalDFN_variables]

\* line 8: pybamm.ParameterValues(values) wraps the mapping it is given
ParameterValues(values) == [class |-> "ParameterValues", data |-> values]

\* line 9: pybamm.Simulation(model, parameter_values=parameter_values)
\* couples the two handles; it holds no solution until it is solved
Simulation(m, pv) ==
    [class |-> "Simulation", model |-> m, parameter_values |-> pv,
     solution |-> None]

t_eval_half == <<0, 1800>>
\* line 10: the literal time span handed to solve
t_eval == <<0, 3600>>

output_variables_kelvin == <<"Temperature [K]">>
\* line 11: the literal list of output variables handed to plot
output_variables == <<"Temperature [°C]">>

\* the first and last time of the solution of a solve over the span te
SolutionTimes(te) == <<te[1], te[Len(te)]>>

\* the solution a successful solve leaves in the simulation
Solution(s, te) ==
    [class |-> "Solution", t |-> SolutionTimes(te),
     variables |-> s.model.variables,
     inputs |-> s.parameter_values.data]

\* the exceptions a collaborator may raise at each stage
Raises(stage) ==
    CASE stage = "solve" -> {"SolverError"}
      [] stage = "plot" -> {"RuntimeError"}
      [] OTHER -> {"ValueError", "RuntimeError"}

\* the five stages in the order the script writes them
Stages == <<"ThermalDFN", "ParameterValues", "Simulation", "solve", "plot">>

\* the names a plot request may be built from: the model's and one unknown
ChannelNames == ThermalDFN_variables \cup {"Temperature [K]"}

\* the lists of names of length at most MaxPlotNames
PlotRequests ==
    UNION {[1..n -> ChannelNames] : n \in 0..MaxPlotNames}

(***************************************************************************)
(* The script.                                                             *)
(***************************************************************************)
Init ==
    /\ pc = "l5"
    /\ model = None
    /\ parameter_values = None
    /\ sim = None
    /\ error = None
    /\ log = <<>>

\* an exception leaves the script: nothing catches it, the interpreter exits
Raise(stage, exc) ==
    /\ pc' = "failed"
    /\ error' = [class |-> exc, stage |-> stage]

\* line 5: model = ThermalDFN()
ConstructModel ==
    /\ pc = "l5"
    /\ log' = Append(log, [op |-> "ThermalDFN"])
    /\ \/ /\ model' = ThermalDFN
          /\ pc' = "l8"
          /\ UNCHANGED error
       \/ /\ \E exc \in Raises("ThermalDFN") : Raise("ThermalDFN", exc)
          /\ UNCHANGED model
    /\ UNCHANGED <<parameter_values, sim>>

ConstructParameterValuesWithOverride ==
    /\ pc = "l8"
    /\ \E values \in get_parameter_values :
          /\ log' = Append(log, [op |-> "ParameterValues", values |-> values])
          /\ parameter_values' =
                ParameterValues([k \in ParamKeys |->
                                   IF k = "R_c" THEN 2 ELSE 60])
          /\ pc' = "l9"
    /\ UNCHANGED <<model, sim, error>>

\* line 8: parameter_values = pybamm.ParameterValues(get_parameter_values())
\* lines 6 and 7 are comments: no preset is loaded and update is not called
ConstructParameterValues ==
    /\ pc = "l8"
    /\ \/ \E values \in get_parameter_values :
            /\ log' = Append(log, [op |-> "ParameterValues", values |-> values])
            /\ \/ /\ parameter_values' = ParameterValues(values)
                  /\ pc' = "l9"
                  /\ UNCHANGED error
               \/ /\ \E exc \in Raises("ParameterValues") :
                        Raise("ParameterValues", exc)
                  /\ UNCHANGED parameter_values
       \/ /\ log' = Append(log, [op |-> "ParameterValues", values |-> None])
          /\ \E exc \in Raises("ParameterValues") :
                Raise("ParameterValues", exc)
          /\ UNCHANGED parameter_values
    /\ UNCHANGED <<model, sim>>

ConstructSimulationSkipsSolve ==
    /\ pc = "l9"
    /\ log' = Append(log, [op |-> "Simulation", model |-> model,
                           parameter_values |-> parameter_values])
    /\ \/ /\ sim' = Simulation(model, parameter_values)
          /\ pc' = "l11"
          /\ UNCHANGED error
       \/ /\ \E exc \in Raises("Simulation") : Raise("Simulation", exc)
          /\ UNCHANGED sim
    /\ UNCHANGED <<model, parameter_values>>

\* line 9: sim = pybamm.Simulation(model, parameter_values=parameter_values)
ConstructSimulation ==
    /\ pc = "l9"
    /\ log' = Append(log, [op |-> "Simulation", model |-> model,
                           parameter_values |-> parameter_values])
    /\ \/ /\ sim' = Simulation(model, parameter_values)
          /\ pc' = "l10"
          /\ UNCHANGED error
       \/ /\ \E exc \in Raises("Simulation") : Raise("Simulation", exc)
          /\ UNCHANGED sim
    /\ UNCHANGED <<model, parameter_values>>

SolveCallDoesNotBlock ==
    /\ pc = "l10"
    /\ log' = Append(log, [op |-> "solve", t_eval |-> t_eval])
    /\ pc' = "l11"
    /\ UNCHANGED <<model, parameter_values, sim, error>>

\* line 10: sim.solve([0, 3600]) is entered; the call blocks the script
SolveCall ==
    /\ pc = "l10"
    /\ log' = Append(log, [op |-> "solve", t_eval |-> t_eval])
    /\ pc' = "l10_solving"
    /\ UNCHANGED <<model, parameter_values, sim, error>>

SolveReturnSwallowsError ==
    /\ pc = "l10_solving"
    /\ \/ sim' = [sim EXCEPT !.solution = Solution(sim, log[Len(log)].t_eval)]
       \/ UNCHANGED sim
    /\ pc' = "l11"
    /\ UNCHANGED <<model, parameter_values, error, log>>

\* line 10: the solver returns, leaving the solution in sim, or raises
SolveReturn ==
    /\ pc = "l10_solving"
    /\ \/ /\ sim' = [sim EXCEPT
                       !.solution = Solution(sim, log[Len(log)].t_eval)]
          /\ pc' = "l11"
          /\ UNCHANGED error
       \/ /\ \E exc \in Raises("solve") : Raise("solve", exc)
          /\ UNCHANGED sim
    /\ UNCHANGED <<model, parameter_values, log>>

\* the names of a plot request the solution does not hold
Unknown(names, solution) ==
    {i \in DOMAIN names : names[i] \notin solution.variables}

PlotRebindsSim(names) ==
    /\ pc = "l11"
    /\ log' = Append(log, [op |-> "plot", output_variables |-> names])
    /\ IF sim.solution = None
         THEN Raise("plot", "ValueError") /\ UNCHANGED sim
         ELSE IF Unknown(names, sim.solution) # {}
                THEN Raise("plot", "KeyError") /\ UNCHANGED sim
                ELSE \/ pc' = "done" /\ sim' = None /\ UNCHANGED error
                     \/ /\ \E exc \in Raises("plot") : Raise("plot", exc)
                        /\ UNCHANGED sim
    /\ UNCHANGED <<model, parameter_values>>

\* line 11: sim.plot(names); the last statement of the script.  Plotting an
\* unsolved simulation or a name the solution does not hold raises.
Plot(names) ==
    /\ pc = "l11"
    /\ log' = Append(log, [op |-> "plot", output_variables |-> names])
    /\ IF sim.solution = None
         THEN Raise("plot", "ValueError")
         ELSE IF Unknown(names, sim.solution) # {}
                THEN Raise("plot", "KeyError")
                ELSE \/ pc' = "done" /\ UNCHANGED error
                     \/ \E exc \in Raises("plot") : Raise("plot", exc)
    /\ UNCHANGED <<model, parameter_values, sim>>

Next ==
    \/ ConstructModel
    \/ ConstructParameterValues
    \/ ConstructSimulation
    \/ SolveCall
    \/ SolveReturn
    \/ Plot(output_variables)

Spec == Init /\ [][Next]_vars

\* every call the script makes returns or raises
FairSpec == Spec /\ WF_vars(Next)

\* the script with the list handed to plot left open
NextAnyPlot ==
    \/ ConstructModel
    \/ ConstructParameterValues
    \/ ConstructSimulation
    \/ SolveCall
    \/ SolveReturn
    \/ \E names \in PlotRequests : Plot(names)

SpecAnyPlot == Init /\ [][NextAnyPlot]_vars

(***************************************************************************)
(* Properties.                                                             *)
(***************************************************************************)
\* the positions of the calls of op in the history
Calls(op) == {i \in DOMAIN log : log[i].op = op}

\* the script has stopped
Terminated == pc \in {"done", "failed"}

\* the solve call has returned a solution into sim
Solved == sim # None /\ sim.solution # None

\* C1 (state part): the calls made so far are a prefix of ThermalDFN,
\* ParameterValues, Simulation, solve, plot, so each stage ran at most once
\* and in that order, and a stage has started only when every earlier stage
\* has returned its result.
StagesInOrder ==
    /\ Len(log) <= Len(Stages)
    /\ \A i \in DOMAIN log : log[i].op = Stages[i]
    /\ Len(log) >= 2 => model # None
    /\ Len(log) >= 3 => parameter_values # None
    /\ Len(log) >= 4 => sim # None
    /\ Len(log) >= 5 => Solved
    /\ error # None => error.stage = log[Len(log)].op

\* C1: in every run the stages happen in the fixed order construct model,
\* construct parameter set, construct simulation, solve, plot, each at most
\* once and each only after the previous one returned successfully, and
\* nothing runs once plot has been called.
C1_StageOrder ==
    /\ []StagesInOrder
    /\ [][Calls("plot") = {}]_vars

\* a run in which all five stages ran
C1_Witness == pc = "done" /\ Len(log) = 5 /\ Calls("plot") = {5}

\* C2 (state part): the run is failed exactly when it carries an exception;
\* the exception is that of the last stage called, which was called once and
\* whose result was never bound; plot is only ever called on a solved
\* simulation.
FailurePropagates ==
    /\ (pc = "failed") <=> (error # None)
    /\ error # None =>
         /\ error.stage = log[Len(log)].op
         /\ Cardinality(Calls(error.stage)) = 1
         /\ error.stage = "ThermalDFN" => model = None
         /\ error.stage = "ParameterValues" => parameter_values = None
         /\ error.stage = "Simulation" => sim = None
         /\ error.stage = "solve" => sim.solution = None /\ Calls("plot") = {}
    /\ (pc \in {"l11", "done"} \/ Calls("plot") # {}) => Solved

\* C2: a failure raised by any stage propagates unhandled: the run is then
\* failed and carries that failure, the failed stage is not retried, no later
\* stage is executed (plot is never called after a failed solve) and no step
\* follows the failure.
C2_FailurePropagates ==
    /\ []FailurePropagates
    /\ [][pc # "failed"]_vars

\* a run that ended in a failed solve
C2_Witness ==
    /\ pc = "failed"
    /\ error = [class |-> "SolverError", stage |-> "solve"]
    /\ Len(log) = 4

\* C3: solve is invoked at most once and only with the time span [0, 3600],
\* and when plot is reached it has been invoked exactly once and the
\* solution held by the simulation starts at 0 and ends at 3600.
C3_SolveSpan ==
    /\ Cardinality(Calls("solve")) <= 1
    /\ \A i \in Calls("solve") : log[i].t_eval = <<0, 3600>>
    /\ (pc \in {"l11", "done"} \/ Calls("plot") # {}) =>
         /\ Cardinality(Calls("solve")) = 1
         /\ Solved
         /\ sim.solution.t[1] = 0
         /\ sim.solution.t[Len(sim.solution.t)] = 3600

\* the run is at the plot call with the solution of the one solve
C3_Witness ==
    /\ pc = "l11"
    /\ Solved
    /\ sim.solution.t = <<0, 3600>>
    /\ Calls("solve") = {4}

\* C4: whenever the run reaches the plot call, "Temperature [°C]" is one of
\* the solution's variables; the plot request names exactly that variable,
\* so it never fails for an unknown name.
C4_TemperatureChannel ==
    /\ pc = "l11" =>
         /\ Solved
         /\ "Temperature [°C]" \in sim.solution.variables
         /\ Unknown(output_variables, sim.solution) = {}
    /\ \A i \in Calls("plot") :
         /\ log[i].output_variables = <<"Temperature [°C]">>
         /\ error # [class |-> "KeyError", stage |-> "plot"]

\* the plot of the temperature has returned
C4_Witness ==
    /\ pc = "done"
    /\ \E i \in Calls("plot") :
          log[i].output_variables = <<"Temperature [°C]">>

\* C5 (state part): whatever list of names plot was called with, the
\* outcome of solve stands: it succeeded and the simulation holds the
\* solution of its model and parameter set over the span solve was given.
SolveOutcomeStands ==
    \A i \in Calls("plot") :
       /\ Solved
       /\ \A j \in Calls("solve") :
             sim.solution = Solution(sim, log[j].t_eval)
       /\ error # None => error.stage = "plot"

\* C5 (step part): the plot call, for every list of names, leaves the model,
\* the parameter set, the simulation with its solution and the record of the
\* earlier calls as they were.
PlotReadsOnly ==
    pc = "l11" =>
       /\ model' = model
       /\ parameter_values' = parameter_values
       /\ sim' = sim
       /\ SubSeq(log', 1, Len(log)) = log

\* C5: solve and plot are independent: for every list of names passed to
\* plot the outcome of solve is the same, and plot only reads the solution.
C5_PlotIndependent ==
    /\ []SolveOutcomeStands
    /\ [][PlotReadsOnly]_vars

\* a plot that omitted the temperature returned, with the solution in place
C5_Witness ==
    /\ pc = "done"
    /\ Solved
    /\ \E i \in Calls("plot") : log[i].output_variables = <<"Time [s]">>

\* C8 (state part): a run that ended plotted ran all five stages without an
\* exception, a run that ended failed carries one; while solve is in
\* progress no later stage has started, and plot starts only on a solve
\* that has returned.
Synchronous ==
    /\ pc = "done" =>
         /\ error = None
         /\ [i \in DOMAIN log |-> log[i].op] = Stages
    /\ pc = "failed" => error # None
    /\ pc = "l10_solving" =>
         /\ log[Len(log)].op = "solve"
         /\ Calls("plot") = {}
         /\ sim.solution = None
    /\ Calls("plot") # {} => Calls("solve") # {} /\ Solved

\* C8 (step part): the only ways out of a solve in progress are its return
\* and its exception, and no step leaves a terminal state.
NoCancellation ==
    /\ ~Terminated
    /\ pc = "l10_solving" =>
         \/ pc' = "l11" /\ error' = None /\ sim'.solution # None
         \/ pc' = "failed" /\ error'.stage = "solve"

\* C8: every run terminates, in exactly one of the states plotted and
\* failed; solve is synchronous and has no cancellation or timeout path.
C8_Terminates ==
    /\ <>Terminated
    /\ []Synchronous
    /\ [][NoCancellation]_vars

\* solve is in progress and the script is blocked on it
C8_Witness ==
    /\ pc = "l10_solving"
    /\ log[Len(log)] = [op |-> "solve", t_eval |-> <<0, 3600>>]

\* C9 (state part): the model is the handle ThermalDFN() returned, the
\* parameter set holds exactly the mapping get_parameter_values() returned,
\* the simulation couples these two, and the solution was computed from them.
Composition ==
    /\ model # None => model = [class |-> "ThermalDFN",
                                variables |-> ThermalDFN_variables]
    /\ parameter_values # None =>
         /\ parameter_values.class = "ParameterValues"
         /\ \A i \in Calls("ParameterValues") :
               parameter_values.data = log[i].values
    /\ \A i \in DOMAIN log : log[i].op \notin {"update", "Chen2020"}
    /\ sim # None =>
         /\ sim.model = model
         /\ sim.parameter_values = parameter_values
         /\ \A i \in Calls("Simulation") :
               /\ log[i].model = model
               /\ log[i].parameter_values = parameter_values
         /\ sim.solution # None =>
               /\ sim.solution.inputs = parameter_values.data
               /\ sim.solution.variables = model.variables

\* C9 (step part): once bound, model and parameter_values are not rebound
\* or updated, and the simulation keeps the pair it was built from.
NotReassigned ==
    /\ model # None => model' = model
    /\ parameter_values # None => parameter_values' = parameter_values
    /\ sim # None =>
         /\ sim' # None
         /\ sim'.model = sim.model
         /\ sim'.parameter_values = sim.parameter_values

\* C9: the simulation is composed from exactly the ThermalDFN() handle and
\* the parameter set built from get_parameter_values() with no override;
\* solve and plot act on that simulation, and the model and the parameter
\* set are not reassigned or updated until the end of the run.
C9_Composition ==
    /\ []Composition
    /\ [][NotReassigned]_vars

\* a complete run over a parameter set whose two values differ
C9_Witness ==
    /\ pc = "done"
    /\ Solved
    /\ sim.parameter_values.data["R_c"] # sim.parameter_values.data["C_c"]

====
